---- MODULE Spec2Model ----
(***************************************************************************)
(* keepassdb: the in-memory model of a KeePass 1.x database (groups,       *)
(* entries, the virtual root), the operations of keepassdb.db.Database     *)
(* that edit it, load/save, and the lock-file protocol of                  *)
(* keepassdb.db.LockingDatabase.                                           *)
(*                                                                         *)
(* Python objects are modelled by handles: Group objects are 1..ngroupobj, *)
(* Entry objects are 1..nentryobj, the RootGroup object is Root.  The      *)
(* attributes of the objects are functions over the handles.  An object    *)
(* that was removed from the database still exists (a caller may hold a    *)
(* reference to it), so handles are never reused until the next load,      *)
(* which builds a new set of objects.                                      *)
(***************************************************************************)
EXTENDS Integers, Sequences, FiniteSets, TLC

\* ---------------------------------------------------------------- bounds
MaxGroups == 3      \* Group objects created between two loads
MaxEntries == 2     \* Entry objects created between two loads
MaxId == 4          \* largest Group.id create_group may allocate in the model
NumHandles == 2     \* LockingDatabase objects (in one process or in several)
IdBits == 2         \* width of Group.id in the model (32 in the file format)

\* ------------------------------------------------------------- constants
Root == 0           \* handle of Database.root, the RootGroup object
NoneRef == -1       \* Python None where an object reference or an index is expected
RootLevel == -1     \* RootGroup.level

GroupObjs == 1..MaxGroups
EntryObjs == 1..MaxEntries
Nodes == {Root} \cup GroupObjs

\* ----------------------------------------------------------------- state
VARIABLES
    groups,         \* Database.groups: flat list of Group handles
    entries,        \* Database.entries: flat list of Entry handles
    children,       \* RootGroup.children / Group.children, per node
    parent,         \* Group.parent, per Group object
    level,          \* Group.level
    id,             \* Group.id
    group_entries,  \* RootGroup.entries / Group.entries, per node
    entry_group,    \* Entry._group (a Group handle or NoneRef)
    group_id,       \* Entry.group_id
    uuid,           \* Entry.uuid
    title,          \* Group.title (a string, or NoneStr)
    username,       \* Entry.username (a string, or NoneStr)
    ngroupobj,      \* number of Group objects that exist
    nentryobj,      \* number of Entry objects that exist
    header,         \* Database.header: TRUE when a HeaderStruct is stored
    password,       \* Database.password ("None" or a password)
    keyfile,        \* Database.keyfile ("None" or a keyfile)
    filepath,       \* Database._filepath ("None" or a path)
    readonly,       \* Database.readonly
    opened_ro,      \* history: the readonly argument of the load that opened it
    hist,           \* the last operation, its arguments and how it ended
    dbs,            \* the LockingDatabase handles of the lock protocol
    lockfiles,      \* the <path>.lock files that exist on disk
    dbfiles,        \* the database files that exist on disk
    lhist,          \* lock protocol: the last operation of each handle
    date_val,       \* the datetime last given to MarshallDate.encode
    date_buf,       \* the bytes MarshallDate.encode returned for it
    date_out,       \* what MarshallDate.decode made of those bytes
    str_val,        \* the string last given to MarshallString.encode
    str_buf,        \* the bytes MarshallString.encode returned for it
    str_out,        \* what MarshallString.decode made of those bytes
    struct_val,     \* the attributes of the GroupStruct last encoded
    struct_buf,     \* the bytes of a group record: encoded, then perhaps damaged
    struct_dmg,     \* history: how the bytes were damaged after encode ("none": not)
    struct_out      \* what GroupStruct(buf) made of those bytes

treevars == <<groups, entries, children, parent, level, id, group_entries,
              entry_group, group_id, uuid, title, username, ngroupobj, nentryobj,
              header, password, keyfile, filepath, readonly, opened_ro, hist>>
lockvars == <<dbs, lockfiles, dbfiles, lhist>>
datevars == <<date_val, date_buf, date_out>>
strvars == <<str_val, str_buf, str_out>>
structvars == <<struct_val, struct_buf, struct_dmg, struct_out>>
codecvars == <<datevars, strvars, structvars>>
vars == <<groups, entries, children, parent, level, id, group_entries,
          entry_group, group_id, uuid, title, username, ngroupobj, nentryobj,
          header, password, keyfile, filepath, readonly, opened_ro, hist,
          dbs, lockfiles, dbfiles, lhist, date_val, date_buf, date_out,
          str_val, str_buf, str_out, struct_val, struct_buf, struct_dmg, struct_out>>

\* --------------------------------------------------- Python list helpers
InSeq(x, s) == \E i \in 1..Len(s) : s[i] = x

\* list.index(x): position (1-based here) of the first occurrence
IndexOf(s, x) == CHOOSE i \in 1..Len(s) : s[i] = x /\ \A j \in 1..(i-1) : s[j] # x

\* list.remove(x): drop the first occurrence (the caller has checked x in s)
ListRemove(s, x) ==
    LET k == IndexOf(s, x)
    IN  [i \in 1..(Len(s)-1) |-> IF i < k THEN s[i] ELSE s[i+1]]

\* list.insert(index, x) for index >= 0: positions past the end append
ListInsert(s, index, x) ==
    LET k == IF index > Len(s) THEN Len(s) ELSE index
    IN  [i \in 1..(Len(s)+1) |->
            IF i <= k THEN s[i] ELSE IF i = k + 1 THEN x ELSE s[i-1]]

SeqToSet(s) == {s[i] : i \in 1..Len(s)}

SetMax(S) == CHOOSE m \in S : \A x \in S : x <= m

\* --------------------------------------------------- string fields
\* A string is a sequence of code units; Nul is the byte 0, LetterA stands
\* for any other character.  NoneStr is Python's None where a string is
\* expected.
Nul == 0
LetterA == 1
EAcute == 233       \* a character of two bytes in UTF-8
NoneStr == <<NoneRef>>

\* buf.rstrip(b'\0')
RECURSIVE rstrip_nul(_)
rstrip_nul(buf) ==
    IF buf # <<>> /\ buf[Len(buf)] = Nul THEN rstrip_nul(SubSeq(buf, 1, Len(buf) - 1))
    ELSE buf

\* str.encode('utf-8') for code points below 2048: one byte below 128, else
\* a lead byte and a continuation byte
RECURSIVE utf8_encode(_)
utf8_encode(val) ==
    IF val = <<>> THEN <<>>
    ELSE LET c == Head(val)
         IN  (IF c < 128 THEN <<c>> ELSE <<192 + (c \div 64), 128 + (c % 64)>>)
             \o utf8_encode(Tail(val))

\* whether bytes.decode('utf-8') accepts buf (it raises UnicodeDecodeError
\* on any other)
RECURSIVE utf8_valid(_)
utf8_valid(buf) ==
    IF buf = <<>> THEN TRUE
    ELSE IF buf[1] < 128 THEN utf8_valid(Tail(buf))
    ELSE /\ buf[1] \in 194..223
         /\ Len(buf) >= 2 /\ buf[2] \in 128..191
         /\ utf8_valid(Tail(Tail(buf)))

\* bytes.decode('utf-8') of a buffer that it accepts
RECURSIVE utf8_decode(_)
utf8_decode(buf) ==
    IF buf = <<>> THEN <<>>
    ELSE IF buf[1] < 128 \/ Len(buf) < 2 THEN <<buf[1]>> \o utf8_decode(Tail(buf))
    ELSE <<(buf[1] - 192) * 64 + (buf[2] - 128)>> \o utf8_decode(Tail(Tail(buf)))

\* MarshallString.decode
MarshallString_decode(buf) == utf8_decode(rstrip_nul(buf))

\* MarshallString.encode
MarshallString_encode(val) ==
    utf8_encode(IF val = NoneStr THEN <<>> ELSE val) \o <<Nul>>

\* A field of a record in the file: present, with its FIELDDATA, or absent
Field(data) == [present |-> TRUE, data |-> data]
AbsentField == [present |-> FALSE, data |-> <<>>]

\* StructBase.encode for a string attribute: a None value is written as a
\* field of size 0, any other value through its marshaller
field_encode(val) ==
    IF val = NoneStr THEN Field(<<>>) ELSE Field(MarshallString_encode(val))

\* StructBase.decode for a string attribute: a field that is not in the
\* record leaves the attribute at its class default, None
field_decode(fld) ==
    IF fld.present THEN MarshallString_decode(fld.data) ELSE NoneStr

\* the title passed to create_group, and the username keyword of create_entry
\* (not given: the Entry constructor's default None)
GroupTitle == <<LetterA>>
UsernameArgs == {NoneStr, <<LetterA>>}

\* ------------------------------------------ the database as one record
\* The operations below are written over a record of the mutable object
\* graph, so that a handler that raises half way keeps what it already did.
St == [groups |-> groups, entries |-> entries, children |-> children,
       parent |-> parent, group_entries |-> group_entries,
       entry_group |-> entry_group, group_id |-> group_id, err |-> "ok"]

Raise(st, e) == [st EXCEPT !.err = e]

\* Database.remove_entry
remove_entry(st, e) ==
    IF ~InSeq(e, st.entries) THEN Raise(st, "ValueError")
    ELSE IF st.entry_group[e] = NoneRef THEN Raise(st, "AttributeError")
    ELSE IF ~InSeq(e, st.group_entries[st.entry_group[e]]) THEN Raise(st, "ValueError")
    ELSE [st EXCEPT
            !.group_entries[st.entry_group[e]] = ListRemove(@, e),
            !.entries = ListRemove(@, e)]

\* "for entry in group.entries: self.remove_entry(entry)": the list iterator
\* keeps a position i and stops when i is past the CURRENT end of the list.
RECURSIVE remove_entries_loop(_, _, _)
remove_entries_loop(st, g, i) ==
    IF st.err # "ok" \/ i > Len(st.group_entries[g]) THEN st
    ELSE remove_entries_loop(remove_entry(st, st.group_entries[g][i]), g, i + 1)

\* Database.remove_group, with its loop over group.children
RECURSIVE remove_group(_, _)
RECURSIVE remove_children_loop(_, _, _)
remove_children_loop(st, g, i) ==
    IF st.err # "ok" \/ i > Len(st.children[g]) THEN st
    ELSE remove_children_loop(remove_group(st, st.children[g][i]), g, i + 1)

remove_group(st, g) ==
    IF ~InSeq(g, st.groups) THEN Raise(st, "ValueError")
    ELSE
      LET s1 == remove_children_loop(st, g, 1)
          s2 == remove_entries_loop(s1, g, 1)
      IN  IF s2.err # "ok" THEN s2
          ELSE IF s2.parent[g] = NoneRef THEN Raise(s2, "AttributeError")
          ELSE IF ~InSeq(g, s2.children[s2.parent[g]]) THEN Raise(s2, "ValueError")
          ELSE [s2 EXCEPT
                  !.children[s2.parent[g]] = ListRemove(@, g),
                  !.groups = ListRemove(@, g)]

\* collapse_group of Database._rebuild_groups: pre-order walk of the children
RECURSIVE collapse_group(_, _)
RECURSIVE collapse_group_loop(_, _, _)
collapse_group_loop(ch, n, i) ==
    IF i > Len(ch[n]) THEN <<>>
    ELSE <<ch[n][i]>> \o collapse_group(ch, ch[n][i]) \o collapse_group_loop(ch, n, i + 1)

collapse_group(ch, n) == collapse_group_loop(ch, n, 1)

\* Database._rebuild_groups
rebuild_groups(st) == [st EXCEPT !.groups = collapse_group(st.children, Root)]

\* collapse_entries of Database._rebuild_entries
RECURSIVE collapse_entries(_, _, _)
RECURSIVE collapse_entries_loop(_, _, _, _)
collapse_entries_loop(ch, ge, n, i) ==
    IF i > Len(ch[n]) THEN <<>>
    ELSE collapse_entries(ch, ge, ch[n][i]) \o collapse_entries_loop(ch, ge, n, i + 1)

collapse_entries(ch, ge, n) == ge[n] \o collapse_entries_loop(ch, ge, n, 1)

\* Database._rebuild_entries
rebuild_entries(st) ==
    [st EXCEPT !.entries = collapse_entries(st.children, st.group_entries, Root)]

\* move_group without "group.parent.children.remove(group)"
move_group_keeps_old(st, g, p, index) ==
    IF g = p THEN Raise(st, "ValueError")
    ELSE
      LET np == IF p = NoneRef THEN Root ELSE p
      IN  IF ~InSeq(g, st.groups) \/ ~InSeq(np, st.groups)
          THEN Raise(st, "UnboundModelError")
          ELSE
            LET s2 == [st EXCEPT !.children[np] =
                          IF index = NoneRef THEN Append(@, g)
                          ELSE ListInsert(@, index, g)]
                s3 == [s2 EXCEPT !.parent[g] = np]
            IN  rebuild_groups(s3)

\* Database.move_group (parent = NoneRef is the caller's None)
move_group(st, g, p, index) ==
    IF g = p THEN Raise(st, "ValueError")
    ELSE
      LET np == IF p = NoneRef THEN Root ELSE p
      IN  IF ~InSeq(g, st.groups) THEN Raise(st, "UnboundModelError")
          ELSE IF ~InSeq(np, st.groups) THEN Raise(st, "UnboundModelError")
          ELSE IF st.parent[g] = NoneRef THEN Raise(st, "AttributeError")
          ELSE IF ~InSeq(g, st.children[st.parent[g]]) THEN Raise(st, "ValueError")
          ELSE
            LET s1 == [st EXCEPT !.children[st.parent[g]] = ListRemove(@, g)]
                s2 == [s1 EXCEPT !.children[np] =
                          IF index = NoneRef THEN Append(@, g)
                          ELSE ListInsert(@, index, g)]
                s3 == [s2 EXCEPT !.parent[g] = np]
            IN  rebuild_groups(s3)

\* Database.move_entry; "entry.group = group" goes through the Entry.group
\* setter, which also sets group_id (ids is Group.id per Group object)
move_entry(st, ids, e, g, index) ==
    IF ~InSeq(e, st.entries) THEN Raise(st, "UnboundModelError")
    ELSE IF ~InSeq(g, st.groups) THEN Raise(st, "UnboundModelError")
    ELSE IF st.entry_group[e] = NoneRef THEN Raise(st, "AttributeError")
    ELSE IF ~InSeq(e, st.group_entries[st.entry_group[e]]) THEN Raise(st, "ValueError")
    ELSE
      LET s1 == [st EXCEPT !.group_entries[st.entry_group[e]] = ListRemove(@, e)]
          s2 == [s1 EXCEPT !.group_entries[g] =
                    IF index = NoneRef THEN Append(@, e)
                    ELSE ListInsert(@, index, e)]
          s3 == [s2 EXCEPT !.entry_group[e] = g, !.group_id[e] = ids[g]]
      IN  rebuild_entries(s3)

\* "max([g.id for g in self.groups]) + 1", or 1 for an empty database
next_group_id(gs, ids) ==
    IF gs = <<>> THEN 1 ELSE SetMax({ids[gs[i]] : i \in 1..Len(gs)}) + 1

\* binascii.hexlify(get_random_bytes(16)): a value no Entry object holds
\* (all fresh values behave alike; the smallest unused one stands for them)
fresh_uuid(us, n) ==
    CHOOSE u \in 1..(n + 1) : u \notin {us[e] : e \in 1..n}
                                /\ \A v \in 1..(u-1) : v \in {us[e] : e \in 1..n}

\* ------------------------------------------------- what a file contains
\* A database file, seen through load_from_buffer: the state of its header,
\* the credentials its content was encrypted with, and the group and entry
\* records of the content in file order.  gbad > 0: the gbad-th group record
\* cannot be parsed.
\*   hdr: "ok" | "short" | "bad_signature" | "bad_version" | "no_aes"
File(hdr, pw, kf, grecs, erecs, gbad) ==
    [hdr |-> hdr, pw |-> pw, kf |-> kf, grecs |-> grecs, erecs |-> erecs, gbad |-> gbad]

\* The parent-stack loop of Database._bind_model.  lv: level per handle;
\* handles 1..n are the groups in file order.
\* the pop loop with "while g.level < current_parent.level"
RECURSIVE bind_pop_strict(_, _, _, _)
bind_pop_strict(lv, glevel, stack, cur) ==
    IF glevel < (IF cur = Root THEN RootLevel ELSE lv[cur])
    THEN IF stack = <<>> THEN [stack |-> stack, cur |-> cur, err |-> "IndexError"]
         ELSE bind_pop_strict(lv, glevel, SubSeq(stack, 1, Len(stack) - 1), stack[Len(stack)])
    ELSE [stack |-> stack, cur |-> cur, err |-> "ok"]

RECURSIVE bind_pop(_, _, _, _)
bind_pop(lv, glevel, stack, cur) ==
    IF glevel <= (IF cur = Root THEN RootLevel ELSE lv[cur])
    THEN IF stack = <<>> THEN [stack |-> stack, cur |-> cur, err |-> "IndexError"]
         ELSE bind_pop(lv, glevel, SubSeq(stack, 1, Len(stack) - 1), stack[Len(stack)])
    ELSE [stack |-> stack, cur |-> cur, err |-> "ok"]

\* _bind_model with "current_parent.children.insert(0, g)" for the append
RECURSIVE bind_groups_prepend(_, _, _, _, _, _, _)
bind_groups_prepend(lv, n, i, stack, cur, ch, par) ==
    IF i > n THEN [children |-> ch, parent |-> par, stack |-> stack, err |-> "ok"]
    ELSE
      LET up == IF i = 1 THEN [stack |-> stack, cur |-> cur, err |-> "ok"]
                ELSE IF lv[i] > lv[i-1]
                     THEN [stack |-> Append(stack, i-1), cur |-> i-1, err |-> "ok"]
                ELSE IF lv[i] < lv[i-1]
                     THEN LET popped == bind_pop(lv, lv[i], stack, cur)
                          IN  [popped EXCEPT !.stack = Append(@, popped.cur)]
                ELSE [stack |-> stack, cur |-> cur, err |-> "ok"]
      IN  IF up.err # "ok" THEN [children |-> ch, parent |-> par, stack |-> up.stack, err |-> up.err]
          ELSE bind_groups_prepend(lv, n, i + 1, up.stack, up.cur,
                           [ch EXCEPT ![up.cur] = <<i>> \o @],
                           [par EXCEPT ![i] = up.cur])

RECURSIVE bind_groups(_, _, _, _, _, _, _)
bind_groups(lv, n, i, stack, cur, ch, par) ==
    IF i > n THEN [children |-> ch, parent |-> par, stack |-> stack, err |-> "ok"]
    ELSE
      LET up == IF i = 1 THEN [stack |-> stack, cur |-> cur, err |-> "ok"]
                ELSE IF lv[i] > lv[i-1]
                     THEN [stack |-> Append(stack, i-1), cur |-> i-1, err |-> "ok"]
                ELSE IF lv[i] < lv[i-1]
                     THEN LET popped == bind_pop(lv, lv[i], stack, cur)
                          IN  [popped EXCEPT !.stack = Append(@, popped.cur)]
                ELSE [stack |-> stack, cur |-> cur, err |-> "ok"]
      IN  IF up.err # "ok" THEN [children |-> ch, parent |-> par, stack |-> up.stack, err |-> up.err]
          ELSE bind_groups(lv, n, i + 1, up.stack, up.cur,
                           [ch EXCEPT ![up.cur] = Append(@, i)],
                           [par EXCEPT ![i] = up.cur])

\* "Bind group objects to entries" of Database._bind_model: the first group
\* of the flat list whose id equals entry.group_id; none is an orphan
RECURSIVE bind_entries(_, _, _, _, _, _, _)
bind_entries(ids, n, egid, k, j, ge, eg) ==
    IF j > k THEN [group_entries |-> ge, entry_group |-> eg, err |-> "ok"]
    ELSE
      LET match == {g \in 1..n : ids[g] = egid[j]}
      IN  IF match = {}
          THEN [group_entries |-> ge, entry_group |-> eg, err |-> "NotImplementedError"]
          ELSE LET g == CHOOSE x \in match : \A y \in match : x <= y
               IN  bind_entries(ids, n, egid, k, j + 1,
                                [ge EXCEPT ![g] = Append(@, j)],
                                [eg EXCEPT ![j] = g])

\* ------------------------------------------------------------ load, save
NoChildren == [n \in Nodes |-> <<>>]
NoParent == [g \in GroupObjs |-> NoneRef]
NoGroupAttr == [g \in GroupObjs |-> 0]
NoEntryGroup == [e \in EntryObjs |-> NoneRef]
NoEntryAttr == [e \in EntryObjs |-> 0]
NoTitle == [g \in GroupObjs |-> NoneStr]
NoUsername == [e \in EntryObjs |-> NoneStr]

\* Database._clear (and the state Database.__init__ leaves without arguments)
Cleared ==
    [groups |-> <<>>, entries |-> <<>>, children |-> NoChildren,
     parent |-> NoParent, level |-> NoGroupAttr, id |-> NoGroupAttr,
     group_entries |-> NoChildren, entry_group |-> NoEntryGroup,
     group_id |-> NoEntryAttr, uuid |-> NoEntryAttr,
     title |-> NoTitle, username |-> NoUsername,
     ngroupobj |-> 0, nentryobj |-> 0,
     header |-> FALSE, password |-> "None", keyfile |-> "None",
     filepath |-> "None", readonly |-> FALSE, err |-> "ok"]

\* _bind_model with "parent_stack = Stack()" for "Stack([self.root])"
bind_model_empty_stack(db) ==
    IF db.groups = <<>> THEN Raise(db, "IndexError")
    ELSE IF db.level[db.groups[1]] # 0 THEN Raise(db, "ValueError")
    ELSE
      LET bg == bind_groups(db.level, Len(db.groups), 1, <<>>, Root,
                            db.children, db.parent)
          d1 == [db EXCEPT !.children = bg.children, !.parent = bg.parent]
          be == bind_entries(db.id, Len(db.groups), db.group_id, Len(db.entries), 1,
                             db.group_entries, db.entry_group)
          d2 == [d1 EXCEPT !.group_entries = be.group_entries,
                           !.entry_group = be.entry_group]
      IN  IF bg.err # "ok" THEN Raise(d1, bg.err)
          ELSE IF be.err # "ok" THEN Raise(d2, be.err)
          ELSE d2

\* Database._bind_model over the flat lists that load_from_buffer parsed
bind_model(db) ==
    IF db.groups = <<>> THEN Raise(db, "IndexError")
    ELSE IF db.level[db.groups[1]] # 0 THEN Raise(db, "ValueError")
    ELSE
      LET bg == bind_groups(db.level, Len(db.groups), 1, <<Root>>, Root,
                            db.children, db.parent)
          d1 == [db EXCEPT !.children = bg.children, !.parent = bg.parent]
          be == bind_entries(db.id, Len(db.groups), db.group_id, Len(db.entries), 1,
                             db.group_entries, db.entry_group)
          d2 == [d1 EXCEPT !.group_entries = be.group_entries,
                           !.entry_group = be.entry_group]
      IN  IF bg.err # "ok" THEN Raise(d1, bg.err)
          ELSE IF be.err # "ok" THEN Raise(d2, be.err)
          ELSE d2

\* util.decrypt_aes_cbc with the key derived from pw and kf: the content when
\* they are the credentials the file was saved with; otherwise garbage, cut
\* by its own last byte taken as the padding length, of which some bytes are
\* left or none.  Which of the two depends on the key: the password "wrong2"
\* stands for the keys that leave none.
decrypt_aes_cbc(f, pw, kf) ==
    IF pw = f.pw /\ kf = f.kf THEN "content"
    ELSE IF pw = "wrong2" THEN "nothing"
    ELSE "garbage"

\* load_from_buffer with the credentials first tested by util.derive_key
load_from_buffer_creds_late(f, pw, kf, ro) ==
      LET c1 == [Cleared EXCEPT !.password = pw, !.keyfile = kf]
          c2 == [c1 EXCEPT !.header = TRUE]
          ng == IF f.gbad > 0 THEN f.gbad - 1 ELSE Len(f.grecs)
          c3 == [c2 EXCEPT
                   !.groups = [i \in 1..ng |-> i],
                   !.level = [g \in GroupObjs |-> IF g <= ng THEN f.grecs[g].level ELSE 0],
                   !.id = [g \in GroupObjs |-> IF g <= ng THEN f.grecs[g].id ELSE 0],
                   !.title = [g \in GroupObjs |->
                                IF g <= ng THEN field_decode(f.grecs[g].title)
                                ELSE NoneStr],
                   !.ngroupobj = ng]
          ne == Len(f.erecs)
          left == decrypt_aes_cbc(f, pw, kf)
          empty == f.grecs = <<>> /\ f.erecs = <<>>
          c4 == [c3 EXCEPT
                   !.entries = [i \in 1..ne |-> i],
                   !.group_id = [e \in EntryObjs |-> IF e <= ne THEN f.erecs[e].group_id ELSE 0],
                   !.uuid = [e \in EntryObjs |-> IF e <= ne THEN f.erecs[e].uuid ELSE 0],
                   !.username = [e \in EntryObjs |->
                                   IF e <= ne THEN field_decode(f.erecs[e].username)
                                   ELSE NoneStr],
                   !.nentryobj = ne]
      IN  IF f.hdr = "short" THEN Raise(c1, "ParseError")
          ELSE IF f.hdr = "bad_signature" THEN Raise(c1, "InvalidDatabase")
          ELSE IF f.hdr = "bad_version" THEN Raise(c2, "UnsupportedDatabaseVersion")
          ELSE IF f.hdr = "no_aes" THEN Raise(c2, "UnsupportedDatabaseEncryption")
          ELSE IF pw = "None" /\ kf = "None" THEN Raise(c2, "ValueError")
          ELSE IF left = "nothing" /\ Len(f.grecs) > 0 THEN Raise(c2, "IncorrectKey")
          ELSE IF left = "garbage" \/ (left = "nothing" /\ ~empty)
               THEN Raise(c2, "AuthenticationError")
          ELSE IF f.gbad > 0 THEN Raise(c3, "ParseError")
          ELSE bind_model(c4)

\* Database.load_from_buffer on a database that load has just cleared.  The
\* readonly argument is accepted and never stored.
load_from_buffer(f, pw, kf, ro) ==
    IF pw = "None" /\ kf = "None" THEN Raise(Cleared, "ValueError")
    ELSE
      LET c1 == [Cleared EXCEPT !.password = pw, !.keyfile = kf]
          c2 == [c1 EXCEPT !.header = TRUE]
          ng == IF f.gbad > 0 THEN f.gbad - 1 ELSE Len(f.grecs)
          c3 == [c2 EXCEPT
                   !.groups = [i \in 1..ng |-> i],
                   !.level = [g \in GroupObjs |-> IF g <= ng THEN f.grecs[g].level ELSE 0],
                   !.id = [g \in GroupObjs |-> IF g <= ng THEN f.grecs[g].id ELSE 0],
                   !.title = [g \in GroupObjs |->
                                IF g <= ng THEN field_decode(f.grecs[g].title)
                                ELSE NoneStr],
                   !.ngroupobj = ng]
          ne == Len(f.erecs)
          left == decrypt_aes_cbc(f, pw, kf)
          empty == f.grecs = <<>> /\ f.erecs = <<>>
          c4 == [c3 EXCEPT
                   !.entries = [i \in 1..ne |-> i],
                   !.group_id = [e \in EntryObjs |-> IF e <= ne THEN f.erecs[e].group_id ELSE 0],
                   !.uuid = [e \in EntryObjs |-> IF e <= ne THEN f.erecs[e].uuid ELSE 0],
                   !.username = [e \in EntryObjs |->
                                   IF e <= ne THEN field_decode(f.erecs[e].username)
                                   ELSE NoneStr],
                   !.nentryobj = ne]
      IN  IF f.hdr = "short" THEN Raise(c1, "ParseError")
          ELSE IF f.hdr = "bad_signature" THEN Raise(c1, "InvalidDatabase")
          ELSE IF f.hdr = "bad_version" THEN Raise(c2, "UnsupportedDatabaseVersion")
          ELSE IF f.hdr = "no_aes" THEN Raise(c2, "UnsupportedDatabaseEncryption")
          ELSE IF left = "nothing" /\ Len(f.grecs) > 0 THEN Raise(c2, "IncorrectKey")
          ELSE IF left = "garbage" \/ (left = "nothing" /\ ~empty)
               THEN Raise(c2, "AuthenticationError")
          ELSE IF f.gbad > 0 THEN Raise(c3, "ParseError")
          ELSE bind_model(c4)

\* Database.load.  src: "stream" (a file object), "path" (an existing file)
\* or "missing" (a path where no file is)
load(f, src, pw, kf, ro) ==
    IF src = "missing" THEN Raise(Cleared, "IOError")
    ELSE
      LET db == load_from_buffer(f, pw, kf, ro)
      IN  IF db.err = "ok" /\ src = "path" THEN [db EXCEPT !.filepath = "a.kdb"] ELSE db

\* The records Database.save serializes: the flat lists in their order
save_bytes(gs, es, lv, ids, us, egid, ti, un, pw, kf) ==
    File("ok", pw, kf,
         [i \in 1..Len(gs) |-> [id |-> ids[gs[i]], level |-> lv[gs[i]],
                                title |-> field_encode(ti[gs[i]])]],
         [i \in 1..Len(es) |-> [uuid |-> us[es[i]], group_id |-> egid[es[i]],
                                username |-> field_encode(un[es[i]])]],
         0)

\* Group.to_dict(hierarchy=True) / Entry.to_dict, over the fields of the model
RECURSIVE group_to_dict(_, _)
group_to_dict(m, g) ==
    [id |-> m.id[g], level |-> m.level[g], title |-> m.title[g],
     entries |-> [i \in 1..Len(m.group_entries[g]) |->
                    [uuid |-> m.uuid[m.group_entries[g][i]],
                     group_id |-> m.group_id[m.group_entries[g][i]],
                     username |-> m.username[m.group_entries[g][i]]]],
     children |-> [i \in 1..Len(m.children[g]) |-> group_to_dict(m, m.children[g][i])]]

\* Database.to_dict(hierarchy=True)
to_dict(m) == [i \in 1..Len(m.children[Root]) |-> group_to_dict(m, m.children[Root][i])]

Model == [children |-> children, group_entries |-> group_entries, level |-> level,
          id |-> id, uuid |-> uuid, group_id |-> group_id,
          title |-> title, username |-> username]
ModelNext == [children |-> children', group_entries |-> group_entries', level |-> level',
              id |-> id', uuid |-> uuid', group_id |-> group_id',
              title |-> title', username |-> username']

\* ------------------------------------------------------- fixture files
Passwords == {"test", "wrong"}
WrongPasswords == {"wrong", "wrong2"}
Keyfiles == {"key"}

LevelSeqs(n) == {s \in [1..n -> 0..(n-1)] : s[1] = 0 /\ \A i \in 2..n : s[i] <= s[i-1] + 1}
GRecs(s) == [i \in 1..Len(s) |->
               [id |-> i, level |-> s[i], title |-> field_encode(GroupTitle)]]
ERecs(q) == [i \in 1..Len(q) |->
               [uuid |-> i, group_id |-> q[i], username |-> field_encode(<<LetterA>>)]]

\* Well-formed files: level-consistent pre-order group records with distinct
\* ids, every entry in one of the groups; encrypted with password "test"
GoodFiles ==
    {File("ok", "test", "None", GRecs(s), ERecs(q), 0) :
        <<s, q>> \in UNION {LevelSeqs(n) \X UNION {[1..k -> 1..n] : k \in 0..MaxEntries}
                            : n \in 1..MaxGroups}}

\* Damaged or unusual files, one per way load_from_buffer can fail
BadFiles ==
    { File("short", "test", "None", <<>>, <<>>, 0),
      File("bad_signature", "test", "None", GRecs(<<0>>), <<>>, 0),
      File("bad_version", "test", "None", GRecs(<<0>>), <<>>, 0),
      File("no_aes", "test", "None", GRecs(<<0>>), <<>>, 0),
      File("ok", "test", "None", GRecs(<<0, 1>>), <<>>, 2),
      File("ok", "test", "None", GRecs(<<0>>), ERecs(<<2>>), 0),
      File("ok", "test", "None", GRecs(<<1>>), <<>>, 0),
      File("ok", "test", "None", <<>>, <<>>, 0) }

\* the files of the load/save specification: the damaged ones and the
\* well-formed ones with one group
IOFiles == BadFiles \cup {f \in GoodFiles : Len(f.grecs) = 1}

\* ------------------------------------------------------ Database actions
\* hist: the operation that produced the state (op) and the exception it
\* raised, or "ok" (err)
Hist(op, err) == [op |-> op, err |-> err]

\* index arguments: None, or a position up to one past the longest list
IndexArgs == {NoneRef} \cup 0..(MaxGroups - 1)

\* the state after Database() without arguments
TreeInit ==
    /\ groups = <<>> /\ entries = <<>>
    /\ children = NoChildren /\ parent = NoParent
    /\ level = NoGroupAttr /\ id = NoGroupAttr
    /\ group_entries = NoChildren /\ entry_group = NoEntryGroup
    /\ group_id = NoEntryAttr /\ uuid = NoEntryAttr
    /\ title = NoTitle /\ username = NoUsername
    /\ ngroupobj = 0 /\ nentryobj = 0
    /\ header = FALSE /\ password = "None" /\ keyfile = "None"
    /\ filepath = "None" /\ readonly = FALSE /\ opened_ro = FALSE
    /\ hist = Hist("init", "ok")

\* the object graph after an operation that worked on the record St
SetGraph(st) ==
    /\ groups' = st.groups /\ entries' = st.entries
    /\ children' = st.children /\ parent' = st.parent
    /\ group_entries' = st.group_entries
    /\ entry_group' = st.entry_group /\ group_id' = st.group_id

\* the whole database after load
SetDatabase(db) ==
    /\ groups' = db.groups /\ entries' = db.entries
    /\ children' = db.children /\ parent' = db.parent
    /\ level' = db.level /\ id' = db.id
    /\ group_entries' = db.group_entries
    /\ entry_group' = db.entry_group /\ group_id' = db.group_id
    /\ uuid' = db.uuid
    /\ title' = db.title /\ username' = db.username
    /\ ngroupobj' = db.ngroupobj /\ nentryobj' = db.nentryobj
    /\ header' = db.header /\ password' = db.password /\ keyfile' = db.keyfile
    /\ filepath' = db.filepath /\ readonly' = db.readonly

\* Database.create_group(title, parent=p); op names the caller
create_group(op, p) ==
    LET g == ngroupobj + 1
        gid == next_group_id(groups, id)
    IN  /\ ngroupobj < MaxGroups
        /\ gid <= MaxId
        /\ UNCHANGED <<entries, group_entries, entry_group, group_id, uuid, username,
                       nentryobj, header, password, keyfile, filepath, readonly,
                       opened_ro>>
        /\ IF p = NoneRef
           THEN /\ parent' = [parent EXCEPT ![g] = Root]
                /\ children' = [children EXCEPT ![Root] = Append(@, g)]
                /\ level' = [level EXCEPT ![g] = 0]
                /\ groups' = Append(groups, g)
                /\ id' = [id EXCEPT ![g] = gid]
                /\ title' = [title EXCEPT ![g] = GroupTitle]
                /\ ngroupobj' = g
                /\ hist' = Hist(op, "ok")
           ELSE IF ~InSeq(p, groups)
           THEN /\ UNCHANGED <<parent, children, level, groups, id, title, ngroupobj>>
                /\ hist' = Hist(op, "ValueError")
           ELSE /\ children' = [children EXCEPT ![p] = Append(@, g)]
                /\ parent' = [parent EXCEPT ![g] = p]
                /\ level' = [level EXCEPT ![g] = level[p] + 1]
                /\ groups' = ListInsert(groups, IndexOf(groups, p), g)
                /\ id' = [id EXCEPT ![g] = gid]
                /\ title' = [title EXCEPT ![g] = GroupTitle]
                /\ ngroupobj' = g
                /\ hist' = Hist(op, "ok")

CreateGroup ==
    /\ \E p \in {NoneRef} \cup 1..ngroupobj : create_group("create_group", p)
    /\ UNCHANGED <<lockvars, codecvars>>

\* Database.create_default_group
CreateDefaultGroup ==
    /\ IF groups # <<>>
       THEN /\ hist' = Hist("create_default_group", "AssertionError")
            /\ UNCHANGED <<groups, entries, children, parent, level, id, group_entries,
                           entry_group, group_id, uuid, title, username, ngroupobj, nentryobj,
                           header, password, keyfile, filepath, readonly, opened_ro>>
       ELSE create_group("create_default_group", NoneRef)
    /\ UNCHANGED <<lockvars, codecvars>>

\* Database.remove_group
RemoveGroup ==
    /\ \E g \in 1..ngroupobj :
         LET st == remove_group(St, g)
         IN  /\ SetGraph(st)
             /\ hist' = Hist("remove_group", st.err)
    /\ UNCHANGED <<level, id, uuid, title, username, ngroupobj, nentryobj,
                   header, password, keyfile, filepath, readonly, opened_ro>>
    /\ UNCHANGED <<lockvars, codecvars>>

\* Database.move_group
MoveGroup ==
    /\ \E g \in 1..ngroupobj, p \in {NoneRef} \cup 1..ngroupobj, index \in IndexArgs :
         LET st == move_group(St, g, p, index)
         IN  /\ SetGraph(st)
             /\ hist' = Hist("move_group", st.err)
    /\ UNCHANGED <<level, id, uuid, title, username, ngroupobj, nentryobj,
                   header, password, keyfile, filepath, readonly, opened_ro>>
    /\ UNCHANGED <<lockvars, codecvars>>

\* Database.create_entry: the Entry is built with group_id only, its group
\* attribute keeps the constructor's default
CreateEntry ==
    /\ nentryobj < MaxEntries
    /\ \E g \in 1..ngroupobj, un \in UsernameArgs :
         LET e == nentryobj + 1
         IN  IF ~InSeq(g, groups)
             THEN /\ hist' = Hist("create_entry", "ValueError")
                  /\ UNCHANGED <<entries, group_entries, entry_group, group_id, uuid,
                                 username, nentryobj>>
             ELSE /\ uuid' = [uuid EXCEPT ![e] = fresh_uuid(uuid, nentryobj)]
                  /\ username' = [username EXCEPT ![e] = un]
                  /\ group_id' = [group_id EXCEPT ![e] = id[g]]
                  /\ entry_group' = [entry_group EXCEPT ![e] = NoneRef]
                  /\ entries' = Append(entries, e)
                  /\ group_entries' = [group_entries EXCEPT ![g] = Append(@, e)]
                  /\ nentryobj' = e
                  /\ hist' = Hist("create_entry", "ok")
    /\ UNCHANGED <<groups, children, parent, level, id, title, ngroupobj,
                   header, password, keyfile, filepath, readonly, opened_ro>>
    /\ UNCHANGED <<lockvars, codecvars>>

\* Database.remove_entry
RemoveEntry ==
    /\ \E e \in 1..nentryobj :
         LET st == remove_entry(St, e)
         IN  /\ SetGraph(st)
             /\ hist' = Hist("remove_entry", st.err)
    /\ UNCHANGED <<level, id, uuid, title, username, ngroupobj, nentryobj,
                   header, password, keyfile, filepath, readonly, opened_ro>>
    /\ UNCHANGED <<lockvars, codecvars>>

\* Database.move_entry
MoveEntry ==
    /\ \E e \in 1..nentryobj, g \in 1..ngroupobj, index \in IndexArgs :
         LET st == move_entry(St, id, e, g, index)
         IN  /\ SetGraph(st)
             /\ hist' = Hist("move_entry", st.err)
    /\ UNCHANGED <<level, id, uuid, title, username, ngroupobj, nentryobj,
                   header, password, keyfile, filepath, readonly, opened_ro>>
    /\ UNCHANGED <<lockvars, codecvars>>

\* Database(dbfile, password): load of a well-formed file from a stream with
\* its password, on a new Database object.  (load starts with _clear, so on a
\* used object it reaches the same states; SaveReload loads on a used one.)
LoadFixture ==
    /\ ngroupobj = 0 /\ nentryobj = 0
    /\ \E f \in GoodFiles :
         LET db == load(f, "stream", "test", "None", FALSE)
         IN  /\ SetDatabase(db)
             /\ opened_ro' = FALSE
             /\ hist' = Hist("load", db.err)
    /\ UNCHANGED <<lockvars, codecvars>>

\* Database.load, and Database(dbfile, ...) which calls it on a new object,
\* with any file, source, credentials and readonly argument
Load ==
    /\ \E f \in IOFiles, src \in {"stream", "path", "missing"},
          pw \in {"None"} \cup Passwords, kf \in {"None"} \cup Keyfiles, ro \in BOOLEAN :
         LET db == load(f, src, pw, kf, ro)
         IN  /\ SetDatabase(db)
             /\ opened_ro' = (ro /\ db.err = "ok")
             /\ hist' = Hist("load", db.err)
    /\ UNCHANGED <<lockvars, codecvars>>

\* Database.save(dbfile=target, password=pw, keyfile=kf).  target: "None",
\* "stream" (a file object) or a path; hist.err = "ok": the bytes were written
save(target, pw, kf) ==
    LET fp == IF target \notin {"None", "stream"} THEN target ELSE filepath
    IN  /\ IF readonly
           THEN /\ hist' = Hist("save", "ReadOnlyDatabase")
                /\ UNCHANGED <<filepath, password, keyfile>>
           ELSE /\ filepath' = fp
                /\ IF pw = "None" /\ keyfile = "None"
                   THEN /\ hist' = Hist("save", "ValueError")
                        /\ UNCHANGED <<password, keyfile>>
                   ELSE /\ password' = pw
                        /\ keyfile' = kf
                        /\ IF fp = "None" /\ target = "None"
                           THEN hist' = Hist("save", "ValueError")
                           ELSE IF pw = "None" /\ kf = "None"
                           THEN hist' = Hist("save", "ValueError")
                           ELSE hist' = Hist("save", "ok")
        /\ UNCHANGED <<groups, entries, children, parent, level, id, group_entries,
                       entry_group, group_id, uuid, title, username, ngroupobj, nentryobj, header,
                       readonly, opened_ro>>

SaveTargets == {"None", "stream", "a.kdb"}

Save ==
    /\ \E target \in SaveTargets,
          pw \in {"None"} \cup Passwords, kf \in {"None"} \cup Keyfiles :
         save(target, pw, kf)
    /\ UNCHANGED <<lockvars, codecvars>>

\* save to a stream with a password, then load that stream with the same
\* password (the round trip of DatabaseTest.test_save)
SaveReload ==
    /\ ~readonly
    /\ LET buf == save_bytes(groups, entries, level, id, uuid, group_id, title, username,
                             "test", "None")
           db == load(buf, "stream", "test", "None", FALSE)
       IN  /\ SetDatabase(db)
           /\ opened_ro' = FALSE
           /\ hist' = Hist("save_reload", db.err)
    /\ UNCHANGED <<lockvars, codecvars>>

\* ------------------------------------------------------- LockingDatabase
\* dbs[h] is one LockingDatabase object:
\*   born      the constructor has returned the object to its caller
\*   filepath  _filepath ("None" or a path);  locked  _locked;  readonly
\*   pc        "idle", or "create" while acquire_lock is between its
\*             os.path.exists test and its open(lockfile, 'w')
\*   cont      the operation that called acquire_lock;  arg_pw  its password
\*   released  history: close or __exit__ ran since filepath was last bound
\*   ro_arg    history: the readonly argument the database was opened with
\*   touched   history: the constructor, load or close created or deleted a
\*             lock file since the database was opened
\* lockfiles[p] is 0 when <p>.lock does not exist, else the handle that last
\* opened it for writing.  dbfiles is the set of paths holding a database.
Handles == 1..NumHandles
Paths == {"a.kdb", "b.kdb"}

Unborn ==
    [born |-> FALSE, filepath |-> "None", locked |-> FALSE, readonly |-> FALSE,
     pc |-> "idle", cont |-> "", arg_pw |-> FALSE,
     released |-> FALSE, ro_arg |-> FALSE, touched |-> FALSE]

LHist(op, err, wrote) == [op |-> op, err |-> err, wrote |-> wrote]

\* one object together with the file system it acts on
World(h) == [db |-> dbs[h], lock |-> lockfiles, files |-> dbfiles,
             err |-> "ok", pend |-> FALSE, wrote |-> FALSE]

\* LockingDatabase.release_lock(force=False); self.lockfile is
\* self.filepath + '.lock', a TypeError when filepath is None
release_lock(w) ==
    IF w.db.readonly THEN Raise(w, "ReadOnlyDatabase")
    ELSE IF ~w.db.locked THEN w
    ELSE IF w.db.filepath = "None" THEN Raise(w, "TypeError")
    ELSE IF w.lock[w.db.filepath] # 0
    THEN [w EXCEPT !.lock[w.db.filepath] = 0, !.db.locked = FALSE, !.db.touched = TRUE]
    ELSE w

\* LockingDatabase.acquire_lock(force=False) up to its os.path.exists test;
\* pend: the lock file was not there and is still to be created
acquire_lock(w) ==
    IF w.db.readonly THEN Raise(w, "ReadOnlyDatabase")
    ELSE IF w.db.locked THEN w
    ELSE IF w.db.filepath = "None" THEN Raise(w, "TypeError")
    ELSE IF w.lock[w.db.filepath] # 0 THEN Raise(w, "DatabaseAlreadyLocked")
    ELSE [w EXCEPT !.pend = TRUE]

\* the second half of acquire_lock: open(self.lockfile, 'w').close()
acquire_create(w, h) ==
    [w EXCEPT !.lock[w.db.filepath] = h, !.db.locked = TRUE, !.db.touched = TRUE,
              !.pend = FALSE]

\* the filepath setter of LockingDatabase
filepath_set(w, value) ==
    IF ~w.db.readonly /\ w.db.filepath # value
    THEN LET w1 == IF w.db.locked THEN release_lock(w) ELSE w
             w2 == [w1 EXCEPT !.db.filepath = value, !.db.released = FALSE]
         IN  IF w1.err # "ok" THEN w1
             ELSE IF value # "None" THEN acquire_lock(w2) ELSE w2
    ELSE [w EXCEPT !.db.filepath = value]

\* Database._clear on a LockingDatabase
clear(w) == filepath_set([w EXCEPT !.db.readonly = FALSE], "None")

\* Database.load up to the point where the filepath setter acquires the lock.
\* creds: a password is passed.  The readonly argument is never stored.
locking_load(w, path, creds, ro) ==
    LET w1 == clear(w)
        w2 == [w1 EXCEPT !.db.ro_arg = ro, !.db.touched = FALSE]
    IN  IF w1.err # "ok" THEN w1
        ELSE IF path \notin w2.files THEN Raise(w2, "IOError")
        ELSE IF ~creds THEN Raise(w2, "ValueError")
        ELSE filepath_set(w2, path)

\* Database.save after the filepath setter: credentials, target, write
save_rest(w, creds) ==
    IF ~creds THEN Raise(w, "ValueError")
    ELSE IF w.db.filepath = "None" THEN Raise(w, "ValueError")
    ELSE [w EXCEPT !.files = @ \cup {w.db.filepath}, !.wrote = TRUE]

\* Database.save(dbfile=target, password) on a LockingDatabase
locking_save(w, target, creds) ==
    IF w.db.readonly THEN Raise(w, "ReadOnlyDatabase")
    ELSE LET w1 == IF target # "None" THEN filepath_set(w, target) ELSE w
         IN  IF w1.err # "ok" \/ w1.pend THEN w1 ELSE save_rest(w1, creds)

\* LockingDatabase.close
locking_close(w) ==
    LET w1 == IF ~w.db.readonly THEN release_lock(w) ELSE w
    IN  [w1 EXCEPT !.db.released = TRUE]

\* LockingDatabase.__exit__
locking_exit(w) ==
    LET w1 == release_lock(w)
    IN  IF w1.err # "ok" THEN w1 ELSE [w1 EXCEPT !.db.released = TRUE]

\* Database.__init__(dbfile, password, readonly=ro, new=new)
locking_init(w, dbfile, new, creds, ro) ==
    IF new THEN filepath_set(w, dbfile)
    ELSE IF dbfile # "None" THEN locking_load(w, dbfile, creds, ro)
    ELSE w

\* what the operation op of handle h leaves: a constructor that raises
\* returns no object, any other exception leaves the object as it is then
Finish(h, op, w, creds) ==
    LET db == IF op \in {"init", "load", "close"} THEN w.db
              ELSE [w.db EXCEPT !.touched = dbs[h].touched]
    IN  /\ lockfiles' = w.lock
        /\ dbfiles' = w.files
        /\ IF w.err # "ok"
           THEN /\ dbs' = [dbs EXCEPT ![h] = IF op = "init" THEN Unborn ELSE db]
                /\ lhist' = [lhist EXCEPT ![h] = LHist(op, w.err, FALSE)]
           ELSE IF w.pend
           THEN /\ dbs' = [dbs EXCEPT ![h] = [db EXCEPT !.pc = "create", !.cont = op,
                                                       !.arg_pw = creds]]
                /\ lhist' = [lhist EXCEPT ![h] = LHist(op, "running", FALSE)]
           ELSE /\ dbs' = [dbs EXCEPT ![h] = [db EXCEPT !.born = TRUE, !.pc = "idle",
                                                       !.cont = "", !.arg_pw = FALSE]]
                /\ lhist' = [lhist EXCEPT ![h] = LHist(op, "ok", w.wrote)]
        /\ UNCHANGED <<treevars, codecvars>>

LockingInit ==
    \E h \in Handles, dbfile \in {"None"} \cup Paths, new \in BOOLEAN,
       creds \in BOOLEAN, ro \in BOOLEAN :
       /\ ~dbs[h].born /\ dbs[h].pc = "idle"
       /\ Finish(h, "init", locking_init(World(h), dbfile, new, creds, ro), creds)

LockingLoad ==
    \E h \in Handles, path \in Paths, creds \in BOOLEAN, ro \in BOOLEAN :
       /\ dbs[h].born /\ dbs[h].pc = "idle"
       /\ Finish(h, "load", locking_load(World(h), path, creds, ro), creds)

LockingSave ==
    \E h \in Handles, target \in {"None"} \cup Paths, creds \in BOOLEAN :
       /\ dbs[h].born /\ dbs[h].pc = "idle"
       /\ Finish(h, "save", locking_save(World(h), target, creds), creds)

LockingClose ==
    \E h \in Handles :
       /\ dbs[h].born /\ dbs[h].pc = "idle"
       /\ Finish(h, "close", locking_close(World(h)), FALSE)

\* LockingDatabase.__enter__
LockingEnter ==
    \E h \in Handles :
       /\ dbs[h].born /\ dbs[h].pc = "idle"
       /\ Finish(h, "enter", acquire_lock(World(h)), FALSE)

LockingExit ==
    \E h \in Handles :
       /\ dbs[h].born /\ dbs[h].pc = "idle"
       /\ Finish(h, "exit", locking_exit(World(h)), FALSE)

\* acquire_lock creates the lock file it found missing, and the operation
\* that called it runs to its end
LockingAcquire ==
    \E h \in Handles :
       /\ dbs[h].pc = "create"
       /\ LET w1 == acquire_create(World(h), h)
              w2 == IF dbs[h].cont = "save" THEN save_rest(w1, dbs[h].arg_pw) ELSE w1
          IN  Finish(h, dbs[h].cont, w2, FALSE)

\* LockingDatabase.release_lock(force=True): the lock file is removed whoever
\* created it; _locked is cleared only when the file was there
release_lock_force(w) ==
    IF w.db.readonly THEN Raise(w, "ReadOnlyDatabase")
    ELSE IF w.db.filepath = "None" THEN Raise(w, "TypeError")
    ELSE IF w.lock[w.db.filepath] # 0
    THEN [w EXCEPT !.lock[w.db.filepath] = 0, !.db.locked = FALSE]
    ELSE w

\* LockingDatabase.acquire_lock(force=True): an existing lock file is
\* opened for writing again
acquire_lock_force(w, h) ==
    IF w.db.readonly THEN Raise(w, "ReadOnlyDatabase")
    ELSE IF w.db.locked THEN w
    ELSE IF w.db.filepath = "None" THEN Raise(w, "TypeError")
    ELSE [w EXCEPT !.lock[w.db.filepath] = h, !.db.locked = TRUE]

LockingForceRelease ==
    \E h \in Handles :
       /\ dbs[h].born /\ dbs[h].pc = "idle"
       /\ Finish(h, "force_release", release_lock_force(World(h)), FALSE)

LockingForceAcquire ==
    \E h \in Handles :
       /\ dbs[h].born /\ dbs[h].pc = "idle"
       /\ Finish(h, "force_acquire", acquire_lock_force(World(h), h), FALSE)

LockInit ==
    /\ dbs = [h \in Handles |-> Unborn]
    /\ lockfiles = [p \in Paths |-> 0]
    /\ dbfiles = {"a.kdb"}
    /\ lhist = [h \in Handles |-> LHist("none", "ok", FALSE)]

\* ------------------------------------------------------------ MarshallDate
\* Python's a | b, a & b, a << n and a >> n on non-negative integers
RECURSIVE BitOr(_, _)
BitOr(a, b) ==
    IF a = 0 THEN b
    ELSE IF b = 0 THEN a
    ELSE (IF a % 2 = 1 \/ b % 2 = 1 THEN 1 ELSE 0) + 2 * BitOr(a \div 2, b \div 2)

RECURSIVE BitAnd(_, _)
BitAnd(a, b) ==
    IF a = 0 \/ b = 0 THEN 0
    ELSE (IF a % 2 = 1 /\ b % 2 = 1 THEN 1 ELSE 0) + 2 * BitAnd(a \div 2, b \div 2)

Shl(a, n) == a * 2^n
Shr(a, n) == a \div 2^n

\* a datetime without microseconds, and the attributes before any call
DateTime(y, mon, d, h, min_, s) == [y |-> y, mon |-> mon, d |-> d, h |-> h, min_ |-> min_, s |-> s]
NoDate == [y |-> 0, mon |-> 0, d |-> 0, h |-> 0, min_ |-> 0, s |-> 0]

\* the checks of the datetime constructor (ValueError when one fails)
IsLeap(y) == y % 4 = 0 /\ (y % 100 # 0 \/ y % 400 = 0)
DaysInMonth(y, mon) ==
    IF mon = 2 THEN (IF IsLeap(y) THEN 29 ELSE 28)
    ELSE IF mon \in {4, 6, 9, 11} THEN 30 ELSE 31
ValidDate(v) ==
    /\ v.y \in 1..9999 /\ v.mon \in 1..12
    /\ v.d \in 1..DaysInMonth(v.y, v.mon)
    /\ v.h \in 0..23 /\ v.min_ \in 0..59 /\ v.s \in 0..59

\* MarshallDate.encode: the five values given to struct.pack('<5B', ...)
MarshallDate_encode(val) ==
    LET dw1 == BitAnd(65535, BitAnd(Shr(val.y, 6), 63))
        dw2 == BitAnd(65535, BitOr(Shl(BitAnd(val.y, 63), 2), BitAnd(Shr(val.mon, 2), 3)))
        dw3 == BitAnd(65535, BitOr(BitOr(Shl(BitAnd(val.mon, 3), 6), Shl(BitAnd(val.d, 31), 1)),
                                   BitAnd(Shr(val.h, 4), 1)))
        dw4 == BitAnd(65535, BitOr(Shl(BitAnd(val.h, 15), 4), BitAnd(Shr(val.min_, 2), 15)))
        dw5 == BitAnd(65535, BitOr(Shl(BitAnd(val.min_, 3), 6), BitAnd(val.s, 63)))
    IN  <<dw1, dw2, dw3, dw4, dw5>>

\* MarshallDate.decode: the datetime, or "ValueError" from its constructor
MarshallDate_decode(buf) ==
    LET y == BitOr(Shl(buf[1], 6), Shr(buf[2], 2))
        mon == BitOr(Shl(BitAnd(buf[2], 3), 2), Shr(buf[3], 6))
        d == BitAnd(Shr(buf[3], 1), 31)
        h == BitOr(Shl(BitAnd(buf[3], 1), 4), Shr(buf[4], 4))
        min_ == BitOr(Shl(BitAnd(buf[4], 15), 2), Shr(buf[5], 6))
        s == BitAnd(buf[5], 63)
        v == DateTime(y, mon, d, h, min_, s)
    IN  IF ValidDate(v) THEN [err |-> "ok", val |-> v] ELSE [err |-> "ValueError", val |-> NoDate]

\* datetimes of the model: the first and last year of datetime, years around
\* the sixth and the twelfth bit, const.NEVER's year, both ends of every
\* other field and the last day of each kind of month
DateValues ==
    {v \in {DateTime(y, mon, d, h, min_, s) :
               y \in {1, 63, 64, 2000, 2999, 4095, 4096, 9999},
               mon \in {1, 2, 4, 12}, d \in {1, 28, 29, 30, 31},
               h \in {0, 15, 16, 23}, min_ \in {0, 59}, s \in {0, 59}} : ValidDate(v)}

DateInit ==
    /\ date_val = NoDate /\ date_buf = <<>>
    /\ date_out = [err |-> "none", val |-> NoDate]

\* MarshallDate().encode(val), the first use of the codec
DateEncode ==
    /\ date_buf = <<>>
    /\ \E v \in DateValues :
         /\ date_val' = v
         /\ date_buf' = MarshallDate_encode(v)
    /\ date_out' = [err |-> "none", val |-> NoDate]
    /\ UNCHANGED <<treevars, lockvars, strvars, structvars>>

\* MarshallDate().decode(buf) of the bytes encode returned
DateDecode ==
    /\ date_buf # <<>>
    /\ date_out.err = "none"
    /\ date_out' = MarshallDate_decode(date_buf)
    /\ UNCHANGED <<date_val, date_buf, treevars, lockvars, strvars, structvars>>

\* ---------------------------------------------------------- MarshallString
\* text strings of up to MaxStrLen characters
MaxStrLen == 4
Chars == {Nul, LetterA, EAcute}
Strings == UNION {[1..n -> Chars] : n \in 0..MaxStrLen}

NoStrOut == [err |-> "none", val |-> <<>>]

StrInit ==
    /\ str_val = NoneStr /\ str_buf = <<>> /\ str_out = NoStrOut

\* MarshallString().encode(val), the first use of the codec
StrEncode ==
    /\ str_buf = <<>>
    /\ \E v \in Strings :
         /\ str_val' = v
         /\ str_buf' = MarshallString_encode(v)
    /\ str_out' = NoStrOut
    /\ UNCHANGED <<treevars, lockvars, datevars, structvars>>

\* MarshallString().decode(buf) of the bytes encode returned
StrDecode ==
    /\ str_buf # <<>>
    /\ str_out.err = "none"
    /\ str_out' = IF utf8_valid(rstrip_nul(str_buf))
                  THEN [err |-> "ok", val |-> MarshallString_decode(str_buf)]
                  ELSE [err |-> "UnicodeDecodeError", val |-> <<>>]
    /\ UNCHANGED <<str_val, str_buf, treevars, lockvars, datevars, structvars>>

\* -------------------------------------------------------------- StructBase
\* struct.pack / struct.unpack of '<H' and '<L' (little-endian, unsigned)
pack_H(n) == <<n % 256, (n \div 256) % 256>>
pack_L(n) == <<n % 256, (n \div 256) % 256, (n \div 65536) % 256, (n \div 16777216) % 256>>
unpack_H(b) == b[1] + 256 * b[2]
unpack_L(b) == b[1] + 256 * b[2] + 65536 * b[3] + 16777216 * b[4]

\* GroupStruct.format, reduced to the attributes the model's groups carry:
\* 0 _ignored (MarshallNone), 1 id (MarshallInt), 2 title (MarshallString),
\* 8 level (MarshallShort) and the terminator
IgnoredType == 0
IdType == 1
TitleType == 2
LevelType == 8
TerminatorType == 65535
UnknownType == 51   \* a type_id that is not a key of the format

\* sorted(self.format.keys())
FormatKeys == <<IgnoredType, IdType, TitleType, LevelType, TerminatorType>>
FormatTypes == {FormatKeys[i] : i \in 1..Len(FormatKeys)}

\* a GroupStruct object: its attributes, None (NoneRef, NoneStr) by default
GroupStructOf(i, t, l) == [id |-> i, title |-> t, level |-> l]
EmptyStruct == GroupStructOf(NoneRef, NoneStr, NoneRef)

\* getattr(self, name, None) is not None, for the attribute of type typ
\* (_ignored is never set)
HasValue(rec, typ) ==
    \/ typ = IdType /\ rec.id # NoneRef
    \/ typ = TitleType /\ rec.title # NoneStr
    \/ typ = LevelType /\ rec.level # NoneRef

\* marshall.encode(value) for the attribute of type typ
marshall_encode(rec, typ) ==
    IF typ = IdType THEN pack_L(rec.id)
    ELSE IF typ = LevelType THEN pack_H(rec.level)
    ELSE MarshallString_encode(rec.title)

\* one turn of the loop of StructBase.encode: type, size and, when the
\* attribute holds a value, its encoded bytes
encode_field(rec, typ) ==
    IF typ # TerminatorType /\ HasValue(rec, typ)
    THEN LET encoded == marshall_encode(rec, typ)
         IN  pack_H(typ) \o pack_L(Len(encoded)) \o encoded
    ELSE pack_H(typ) \o pack_L(0)

\* StructBase.encode
RECURSIVE StructBase_encode_loop(_, _)
StructBase_encode_loop(rec, k) ==
    IF k > Len(FormatKeys) THEN <<>>
    ELSE encode_field(rec, FormatKeys[k]) \o StructBase_encode_loop(rec, k + 1)

StructBase_encode(rec) == StructBase_encode_loop(rec, 1)

\* the loop of StructBase.decode from byte offset index; the exceptions are
\* those of the statements in their order
RECURSIVE StructBase_decode_loop(_, _, _)
StructBase_decode_loop(buf, index, rec) ==
    IF index + 6 > Len(buf) THEN [err |-> "ValueError", rec |-> rec]
    ELSE
      LET typ == unpack_H(SubSeq(buf, index + 1, index + 2))
          siz == unpack_L(SubSeq(buf, index + 3, index + 6))
          last == IF index + 6 + siz > Len(buf) THEN Len(buf) ELSE index + 6 + siz
          encoded == SubSeq(buf, index + 7, last)
      IN  IF Len(encoded) # siz THEN [err |-> "struct.error", rec |-> rec]
          ELSE IF typ \notin FormatTypes THEN [err |-> "KeyError", rec |-> rec]
          ELSE IF typ = TerminatorType THEN [err |-> "ok", rec |-> rec]
          ELSE IF typ = IdType
          THEN IF siz # 4 THEN [err |-> "ParseError", rec |-> rec]
               ELSE StructBase_decode_loop(buf, last, [rec EXCEPT !.id = unpack_L(encoded)])
          ELSE IF typ = LevelType
          THEN IF siz # 2 THEN [err |-> "ParseError", rec |-> rec]
               ELSE StructBase_decode_loop(buf, last, [rec EXCEPT !.level = unpack_H(encoded)])
          ELSE IF typ = TitleType
          THEN IF ~utf8_valid(rstrip_nul(encoded))
               THEN [err |-> "UnicodeDecodeError", rec |-> rec]
               ELSE StructBase_decode_loop(buf, last,
                        [rec EXCEPT !.title = MarshallString_decode(encoded)])
          ELSE StructBase_decode_loop(buf, last, rec)

\* GroupStruct(buf): StructBase.__init__ decodes "if buf"
GroupStruct(buf) ==
    IF buf = <<>> THEN [err |-> "ok", rec |-> EmptyStruct]
    ELSE StructBase_decode_loop(buf, 0, EmptyStruct)

\* the (typ, siz) pairs of a buffer that is a sequence of whole fields
RECURSIVE FieldsOf(_)
FieldsOf(buf) ==
    IF Len(buf) < 6 THEN <<>>
    ELSE LET siz == unpack_L(SubSeq(buf, 3, 6))
         IN  <<[typ |-> unpack_H(SubSeq(buf, 1, 2)), siz |-> siz]>>
             \o FieldsOf(SubSeq(buf, 7 + siz, Len(buf)))

\* the GroupStruct objects of the model: each attribute set or None
StructValues ==
    {GroupStructOf(i, t, l) : i \in {NoneRef, 1}, t \in {NoneStr, <<LetterA>>},
                              l \in {NoneRef, 0, 1}}

NoStructOut == [err |-> "none", rec |-> EmptyStruct]

StructInit ==
    /\ struct_val = EmptyStruct /\ struct_buf = <<>>
    /\ struct_dmg = "unused" /\ struct_out = NoStructOut

\* GroupStruct.encode() of a struct whose attributes were set
StructEncode ==
    /\ struct_dmg = "unused"
    /\ \E rec \in StructValues :
         /\ struct_val' = rec
         /\ struct_buf' = StructBase_encode(rec)
    /\ struct_dmg' = "none"
    /\ UNCHANGED <<struct_out, treevars, lockvars, datevars, strvars>>

\* the bytes are damaged before they are parsed: cut after k bytes (inside a
\* field header or payload, or in front of the terminator), cut to nothing,
\* or with the type_id of the first field replaced by an unknown one
StructDamage ==
    /\ struct_dmg = "none" /\ struct_out.err = "none"
    /\ \/ \E k \in 1..(Len(struct_buf) - 1) :
            /\ struct_buf' = SubSeq(struct_buf, 1, k)
            /\ struct_dmg' = "truncated"
       \/ /\ struct_buf' = <<>>
          /\ struct_dmg' = "empty"
       \/ /\ struct_buf' = pack_H(UnknownType) \o SubSeq(struct_buf, 3, Len(struct_buf))
          /\ struct_dmg' = "unknown_type"
    /\ UNCHANGED <<struct_val, struct_out, treevars, lockvars, datevars, strvars>>

\* GroupStruct(buf), as load_from_buffer calls it for a record it expects
StructDecode ==
    /\ struct_dmg # "unused" /\ struct_out.err = "none"
    /\ struct_out' = GroupStruct(struct_buf)
    /\ UNCHANGED <<struct_val, struct_buf, struct_dmg, treevars, lockvars, datevars, strvars>>

Init == TreeInit /\ LockInit /\ DateInit /\ StrInit /\ StructInit

StructNext == StructEncode \/ StructDamage \/ StructDecode

\* Group records encoded, damaged and parsed
SpecStruct == Init /\ [][StructNext]_vars


StrNext == StrEncode \/ StrDecode

\* Strings encoded and decoded
SpecStr == Init /\ [][StrNext]_vars


DateNext == DateEncode \/ DateDecode

\* Datetimes encoded and decoded
SpecDate == Init /\ [][DateNext]_vars


GroupsNext ==
    \/ CreateDefaultGroup \/ CreateGroup \/ RemoveGroup \/ MoveGroup
    \/ LoadFixture

\* The group operations of a Database (entries come from the loaded files)
SpecGroups == Init /\ [][GroupsNext]_vars

TreeNext == CreateDefaultGroup \/ CreateGroup \/ RemoveGroup \/ MoveGroup

\* The group operations of a Database whose groups were all made by
\* create_group (no file, no entries)
SpecTree == Init /\ [][TreeNext]_vars

EntriesNext ==
    \/ CreateDefaultGroup \/ CreateGroup
    \/ CreateEntry \/ RemoveEntry \/ MoveEntry
    \/ LoadFixture

\* The entry operations of a Database (groups are created or loaded)
SpecEntries == Init /\ [][EntriesNext]_vars

BuildNext == CreateDefaultGroup \/ CreateGroup \/ CreateEntry \/ SaveReload

\* A database built by the create operations, saved and loaded back
SpecBuild == Init /\ [][BuildNext]_vars

IONext == Load \/ Save \/ CreateDefaultGroup \/ CreateEntry

\* Opening and saving a Database with every kind of file and credentials
SpecIO == Init /\ [][IONext]_vars

LockNext ==
    \/ LockingInit \/ LockingLoad \/ LockingSave \/ LockingClose
    \/ LockingEnter \/ LockingExit \/ LockingAcquire

\* LockingDatabase objects sharing the lock files of one file system
SpecLock == Init /\ [][LockNext]_vars

ForceNext ==
    \/ LockingInit \/ LockingClose \/ LockingEnter \/ LockingExit \/ LockingAcquire
    \/ LockingForceRelease \/ LockingForceAcquire

\* LockingDatabase objects that are opened, locked and released, their
\* callers also using force=True
SpecLockForce == Init /\ [][ForceNext]_vars

\* Files that load, of n group records and k entry records: the first group of level 0 and
\* the others of any level up to MaxLevel, each with or without a title
\* field; entry records naming one of the groups, each with or without a
\* username field
MaxLevel == 2

StringFields == {AbsentField, Field(MarshallString_encode(<<LetterA>>))}

LoadableFiles(n, k) ==
    {File("ok", "test", "None",
          [i \in 1..n |-> [id |-> i, level |-> r[1][i], title |-> r[2][i]]],
          [i \in 1..k |-> [uuid |-> i, group_id |-> r[3][i], username |-> r[4][i]]],
          0) :
        r \in {s \in [1..n -> 0..MaxLevel] : s[1] = 0}
               \X [1..n -> StringFields]
               \X [1..k -> 1..n]
               \X [1..k -> StringFields]}

\* Database(stream, password): load of such a file on a new Database object
LoadRecords ==
    /\ hist.op = "init"
    /\ \E n \in 1..MaxGroups, k \in 0..MaxEntries : \E f \in LoadableFiles(n, k) :
         LET db == load(f, "stream", "test", "None", FALSE)
         IN  /\ SetDatabase(db)
             /\ opened_ro' = FALSE
             /\ hist' = Hist("load", db.err)
    /\ UNCHANGED <<lockvars, codecvars>>

ReloadNext == LoadRecords \/ SaveReload

\* A loaded database saved unedited and loaded back
SpecReload == Init /\ [][ReloadNext]_vars

\* ------------------------------------------------------- group id range
\* Group.id is an unsigned field of IdBits bits (MarshallInt, "<L") in which
\* the value 0 and the all-ones value are not ids of groups
AllOnesId == 2^IdBits - 1
ValidIds == 1..(AllOnesId - 1)

\* files of one or two groups whose ids are distinct values of ValidIds
IdFiles ==
    {File("ok", "test", "None",
          [i \in 1..Len(r[1]) |-> [GRecs(r[1])[i] EXCEPT !.id = r[2][i]]],
          <<>>, 0) :
        r \in UNION {LevelSeqs(n) \X {q \in [1..n -> ValidIds] :
                                         \A i, j \in 1..n : i # j => q[i] # q[j]}
                     : n \in 1..2}}

\* Database.load of such a file
LoadIds ==
    /\ \E f \in IdFiles :
         LET db == load(f, "stream", "test", "None", FALSE)
         IN  /\ SetDatabase(db)
             /\ opened_ro' = FALSE
             /\ hist' = Hist("load", db.err)
    /\ UNCHANGED <<lockvars, codecvars>>

IdsNext == LoadIds \/ CreateGroup \/ RemoveGroup

\* Loads, group creations and group removals in any order
SpecIds == Init /\ [][IdsNext]_vars

\* ------------------------------------------------------ level sequences
\* files of up to MaxGroups groups and no entries: the first group of level
\* 0, the others of any level up to MaxLevel, each with or without a title
LevelFiles ==
    {File("ok", "test", "None",
          [i \in 1..Len(r[1]) |-> [id |-> i, level |-> r[1][i], title |-> r[2][i]]],
          <<>>, 0) :
        r \in UNION {{s \in [1..n -> 0..MaxLevel] : s[1] = 0} \X [1..n -> StringFields]
                     : n \in 1..MaxGroups}}

\* Database(stream, password): load of such a file on a new Database object
LoadLevels ==
    /\ hist.op = "init"
    /\ \E f \in LevelFiles :
         LET db == load(f, "stream", "test", "None", FALSE)
         IN  /\ SetDatabase(db)
             /\ opened_ro' = FALSE
             /\ hist' = Hist("load", db.err)
    /\ UNCHANGED <<lockvars, codecvars>>

LevelsNext == LoadLevels \/ SaveReload

\* Loads of any level sequence, each saved and loaded back
SpecLevels == Init /\ [][LevelsNext]_vars

\* ------------------------------------------------- save, then load again
\* db.save(dbfile=stream, password='test') and then
\* db.load(dbfile=stream, password=pw), as in DatabaseTest.test_save
SaveLoadAs ==
    /\ ~readonly
    /\ \E pw \in {"test"} \cup WrongPasswords :
         LET buf == save_bytes(groups, entries, level, id, uuid, group_id, title, username,
                               "test", "None")
             db == load(buf, "stream", pw, "None", FALSE)
         IN  /\ SetDatabase(db)
             /\ opened_ro' = FALSE
             /\ hist' = Hist(IF pw = "test" THEN "save_reload" ELSE "save_load_wrong", db.err)
    /\ UNCHANGED <<lockvars, codecvars>>

AuthNext == CreateDefaultGroup \/ CreateGroup \/ CreateEntry \/ SaveLoadAs

\* Databases built by the create operations, saved and loaded with any password
SpecAuth == Init /\ [][AuthNext]_vars

\* ------------------------------------------------------------- properties
\* the object graph after a step, as the record the operations return
GraphNext ==
    [groups |-> groups', entries |-> entries', children |-> children',
     parent |-> parent', group_entries |-> group_entries',
     entry_group |-> entry_group', group_id |-> group_id', err |-> "ok"]

\* g and the groups below it (children lists followed to any depth)
RECURSIVE SubtreeOf(_, _, _)
SubtreeOf(ch, S, k) ==
    IF k = 0 THEN S
    ELSE SubtreeOf(ch, S \cup UNION {SeqToSet(ch[x]) : x \in S}, k - 1)

Subtree(g) == SubtreeOf(children, {g}, MaxGroups)

\* the number of positions of s holding x
Count(s, x) == Cardinality({i \in 1..Len(s) : s[i] = x})

\* C1: a database built by create_default_group, create_group and
\* create_entry has the same hierarchical dict before saving to a stream and
\* after loading that stream back with the same password.
C1_RoundTripDict ==
    [][(hist'.op = "save_reload" /\ hist'.err = "ok")
          => to_dict(ModelNext) = to_dict(Model)]_vars

\* C2: after any sequence of load, create_group, move_group and
\* remove_group, every group of the database is in its parent's children and
\* its level is its parent's level plus one (the root counting as -1).
C2_ParentChildrenLevel ==
    \A g \in SeqToSet(groups) :
       /\ parent[g] # NoneRef
       /\ InSeq(g, children[parent[g]])
       /\ level[g] = (IF parent[g] = Root THEN RootLevel ELSE level[parent[g]]) + 1

\* C3: after any sequence of load, create_group, move_group and
\* remove_group, the flat list Database.groups is the depth-first pre-order
\* traversal of the hierarchy under Database.root.
C3_FlatListIsPreorder == groups = collapse_group(children, Root)

\* C4: after any sequence of load, create_entry, move_entry and
\* remove_entry, every entry of Database.entries has an owning group that is
\* a group of the database, is exactly once in that group's entries, is in no
\* other group's entries, and its group_id is the id of that group.
C4_EntryOwnership ==
    \A e \in SeqToSet(entries) :
       /\ entry_group[e] # NoneRef
       /\ InSeq(entry_group[e], groups)
       /\ Count(group_entries[entry_group[e]], e) = 1
       /\ \A g \in Nodes \ {entry_group[e]} : ~InSeq(e, group_entries[g])
       /\ group_id[e] = id[entry_group[e]]

\* C5: when remove_group(g) returns for a group g of the database, neither g
\* nor any descendant of g is in Database.groups, g is not in its former
\* parent's children, no entry of g or of a descendant is in
\* Database.entries, and all other groups and entries are unchanged.
C5_RemoveGroupRemovesSubtree ==
    [][\A g \in GroupObjs :
         (/\ InSeq(g, groups)
          /\ hist'.op = "remove_group"
          /\ GraphNext = remove_group(St, g))
         => LET D == Subtree(g)
                E == UNION {SeqToSet(group_entries[x]) : x \in D}
                keepg(x) == x \notin D
                keepe(e) == e \notin E
            IN  /\ \A x \in D : ~InSeq(x, groups')
                /\ ~InSeq(g, children'[parent[g]])
                /\ \A e \in E : ~InSeq(e, entries')
                /\ groups' = SelectSeq(groups, keepg)
                /\ entries' = SelectSeq(entries, keepe)
                /\ \A x \in Nodes \ D :
                      /\ children'[x] = SelectSeq(children[x], keepg)
                      /\ group_entries'[x] = group_entries[x]]_vars

\* C6: two writable LockingDatabase handles bound to the same path, neither
\* using force, never both hold the lock, however their steps interleave.
C6_LockMutualExclusion ==
    \A h1 \in Handles, h2 \in Handles :
       (h1 # h2 /\ dbs[h1].locked /\ dbs[h2].locked
          /\ dbs[h1].filepath # "None")
       => dbs[h1].filepath # dbs[h2].filepath

\* C7: whenever a writable LockingDatabase has its filepath bound to a path
\* and no __exit__, close or rebinding happened since, the lock file of that
\* path exists and the handle holds the lock.
C7_LockHeldWhileBound ==
    \A h \in Handles :
       (/\ dbs[h].born /\ dbs[h].pc = "idle"
        /\ ~dbs[h].ro_arg /\ ~dbs[h].readonly
        /\ dbs[h].filepath # "None" /\ ~dbs[h].released)
       => dbs[h].locked /\ lockfiles[dbs[h].filepath] # 0

\* C8: a database opened with readonly=True rejects every later save with
\* ReadOnlyDatabase and writes nothing.
C8_ReadOnlyRejectsSave ==
    (opened_ro /\ hist.op = "save") => hist.err = "ReadOnlyDatabase"

\* C9: a LockingDatabase opened with readonly=True never creates and never
\* deletes a lock file in its constructor, load or close.
C9_ReadOnlyNeverTouchesLock ==
    \A h \in Handles : dbs[h].ro_arg => ~dbs[h].touched

\* C10: a load that raises leaves the database empty: no groups, no
\* entries, header None, filepath None, no stored password or keyfile.
C10_LoadAllOrNothing ==
    (hist.op = "load" /\ hist.err # "ok")
    => /\ groups = <<>> /\ entries = <<>>
       /\ ~header /\ filepath = "None"
       /\ password = "None" /\ keyfile = "None"

\* C11: save on a writable database with a target raises ValueError exactly
\* when no credential is available (none passed to save and none remembered
\* from the last load or the constructor); in every other case it succeeds.
C11_SaveCredentials ==
    [][\A target \in SaveTargets, pw \in {"None"} \cup Passwords,
          kf \in {"None"} \cup Keyfiles :
         (/\ ~readonly
          /\ (target # "None" \/ filepath # "None")
          /\ save(target, pw, kf))
         => LET none == /\ pw = "None" /\ kf = "None"
                        /\ password = "None" /\ keyfile = "None"
            IN  hist'.err = (IF none THEN "ValueError" ELSE "ok")]_vars

\* C12: loading bytes that load, saving the unedited database with the same
\* credentials and loading the saved bytes yields a model equal to the first
\* one: same groups, ids, titles, levels, parent/children structure and
\* order, same entries per group with the same field values.
C12_LoadSaveLoad ==
    [][(hist.op = "load" /\ hist.err = "ok" /\ hist'.op = "save_reload")
          => /\ hist'.err = "ok"
             /\ <<groups', entries', children', parent', level', id', title',
                  group_entries', entry_group', group_id', uuid', username'>>
                = <<groups, entries, children, parent, level, id, title,
                    group_entries, entry_group, group_id, uuid, username>>]_vars

\* the step is the call whose result (object graph and exception) is st
StepIs(st) == [GraphNext EXCEPT !.err = hist'.err] = st

\* the list s without x
Without(s, x) == LET keep(y) == y # x IN SelectSeq(s, keep)

\* move_group(g, p, index) is called with g and p in the database, p not g
\* and not inside g's subtree
MoveGroupCall(g, p, index) ==
    /\ hist'.op = "move_group"
    /\ InSeq(g, groups) /\ InSeq(p, groups)
    /\ hist'.err = "ok" => parent'[g] = p
    /\ p \notin Subtree(g)
    /\ StepIs(move_group(St, g, p, index))

\* the call returned and left g under p at position pos (from 1), once, out
\* of its former parent's list, every list otherwise in its old order
MoveGroupPlaced(g, p, pos) ==
    /\ hist'.err = "ok"
    /\ parent'[g] = p
    /\ Count(children'[p], g) = 1
    /\ pos \in 1..Len(children'[p]) /\ children'[p][pos] = g
    /\ parent[g] # p => ~InSeq(g, children'[parent[g]])
    /\ \A x \in Nodes : Without(children'[x], g) = Without(children[x], g)

\* C13 as stated: after move_group(g, p, index), g.parent is p and g is once
\* in p.children, at position index when an index is given and last
\* otherwise; the other children keep their order.
C13_MoveGroupAtIndex ==
    [][\A g \in GroupObjs, p \in GroupObjs, index \in IndexArgs :
         MoveGroupCall(g, p, index)
         => MoveGroupPlaced(g, p, IF index = NoneRef
                                  THEN Len(Without(children[p], g)) + 1
                                  ELSE index + 1)]_vars

\* C13 amended: the position is index when index is at most the number of
\* the other children of p, and last when it is larger or not given.
C13_MoveGroupAtClampedIndex ==
    [][\A g \in GroupObjs, p \in GroupObjs, index \in IndexArgs :
         MoveGroupCall(g, p, index)
         => LET n == Len(Without(children[p], g))
            IN  MoveGroupPlaced(g, p, IF index = NoneRef \/ index > n
                                      THEN n + 1 ELSE index + 1)]_vars

\* a group was moved in front of a sibling below another group
C13_Witness ==
    /\ hist.op = "move_group" /\ hist.err = "ok"
    /\ \E g \in SeqToSet(groups) :
          /\ parent[g] # Root /\ InSeq(parent[g], groups)
          /\ Len(children[parent[g]]) >= 2
          /\ children[parent[g]][1] = g

\* move_entry(e, g, index) is called with e and g in the database
MoveEntryCall(e, g, index) ==
    /\ hist'.op = "move_entry"
    /\ InSeq(e, entries) /\ InSeq(g, groups)
    /\ StepIs(move_entry(St, id, e, g, index))

\* the call returned and left e in g at position pos (from 1), once, out of
\* its former group's list, every list otherwise in its old order, and
\* Database.entries with the same entries
MoveEntryPlaced(e, g, pos) ==
    /\ hist'.err = "ok"
    /\ entry_group'[e] = g /\ group_id'[e] = id[g]
    /\ Count(group_entries'[g], e) = 1
    /\ pos \in 1..Len(group_entries'[g]) /\ group_entries'[g][pos] = e
    /\ entry_group[e] \notin {g, NoneRef} => ~InSeq(e, group_entries'[entry_group[e]])
    /\ \A x \in Nodes : Without(group_entries'[x], e) = Without(group_entries[x], e)
    /\ SeqToSet(entries') = SeqToSet(entries)

\* C14: for any entry e of the database (loaded or made by create_entry) and
\* any group g of the database, after move_entry(e, g, index) e.group is g,
\* e.group_id is g.id, e is once in g.entries, at position index when given
\* and last otherwise, e is out of its former group's entries, the other
\* entries keep their order and Database.entries holds the same entries.
C14_MoveEntryPost ==
    [][\A e \in EntryObjs, g \in GroupObjs, index \in IndexArgs :
         MoveEntryCall(e, g, index)
         => MoveEntryPlaced(e, g, IF index = NoneRef
                                  THEN Len(Without(group_entries[g], e)) + 1
                                  ELSE index + 1)]_vars

\* C15: for any group g in the database, Group.move(None), which is
\* move_group(g, None), moves g to the top level: the call returns, and
\* afterwards g.parent is the virtual root and g is in root.children.
C15_MoveToTopLevel ==
    [][\A g \in GroupObjs :
         (/\ hist'.op = "move_group"
          /\ InSeq(g, groups)
          /\ StepIs(move_group(St, g, NoneRef, NoneRef)))
         => /\ hist'.err = "ok"
            /\ parent'[g] = Root
            /\ InSeq(g, children'[Root])]_vars

\* C16: after any sequence of load (of a file whose group ids are unique
\* values of the id width other than 0 and all-ones), create_group and
\* remove_group, the ids of the groups in the database are pairwise distinct
\* and each lies between 1 and all-ones minus 1.
C16_GroupIdsValid ==
    /\ \A i, j \in 1..Len(groups) : i # j => id[groups[i]] # id[groups[j]]
    /\ \A i \in 1..Len(groups) : id[groups[i]] \in ValidIds

C18_WrongPasswordRejected ==
    hist.op = "save_load_wrong"
    => /\ hist.err \in {"AuthenticationError", "IncorrectKey"}
       /\ groups = <<>> /\ entries = <<>>

\* every attribute of the Database after a step, as the record load returns
DatabaseNext ==
    [groups |-> groups', entries |-> entries', children |-> children',
     parent |-> parent', level |-> level', id |-> id',
     group_entries |-> group_entries', entry_group |-> entry_group',
     group_id |-> group_id', uuid |-> uuid',
     title |-> title', username |-> username',
     ngroupobj |-> ngroupobj', nentryobj |-> nentryobj',
     header |-> header', password |-> password', keyfile |-> keyfile',
     filepath |-> filepath', readonly |-> readonly', err |-> hist'.err]

\* C19: load from an existing path or from a stream with neither password
\* nor keyfile raises ValueError before the header is decoded: header stays
\* None, groups and entries stay empty, and filepath is not set.
C19_LoadNeedsCredentials ==
    [][hist'.op = "load"
       => LET next == DatabaseNext
          IN  \A f \in IOFiles, src \in {"stream", "path"}, ro \in BOOLEAN :
                next = load(f, src, "None", "None", ro)
                => /\ hist'.err = "ValueError"
                   /\ ~header'
                   /\ groups' = <<>> /\ entries' = <<>>
                   /\ filepath' = "None"]_vars

\* a load without credentials has raised ValueError
C19_Witness ==
    /\ hist.op = "load" /\ hist.err = "ValueError"
    /\ password = "None" /\ keyfile = "None"
    /\ ~header /\ groups = <<>> /\ filepath = "None"

\* C20: for every valid calendar value (year 1..9999, month 1..12, day valid
\* for the month, hour 0..23, minute 0..59, second 0..59) encode gives five
\* bytes, each in 0..255, and decode of them gives the value back.
C20_DateRoundTrip ==
    /\ date_buf # <<>> => /\ Len(date_buf) = 5
                          /\ \A i \in 1..5 : date_buf[i] \in 0..255
    /\ date_out.err # "none" => /\ date_out.err = "ok"
                                /\ date_out.val = date_val

\* C21: for every text string s, the empty string and strings that contain
\* or end with NUL characters included, encode gives the UTF-8 bytes of s
\* followed by exactly one 0 byte, and decode of them gives s back.
C21_StringRoundTrip ==
    /\ str_buf # <<>> => str_buf = utf8_encode(str_val) \o <<Nul>>
    /\ str_out.err # "none" => /\ str_out.err = "ok"
                               /\ str_out.val = str_val

\* the position of a node in the flat list (the virtual root keeps its handle)
PosIn(flat, x) == IF x = Root THEN Root ELSE IndexOf(flat, x)

\* the hierarchy is a level-consistent forest: each group of the handles gs
\* is once in its parent's children, its parent is the root or one of gs,
\* top-level groups have level 0 and a child its parent's level plus one
LevelConsistent(gs) ==
    /\ \A g \in gs :
          /\ parent[g] \in {Root} \cup gs
          /\ Count(children[parent[g]], g) = 1
          /\ level[g] = (IF parent[g] = Root THEN RootLevel ELSE level[parent[g]]) + 1
    /\ \A x \in {Root} \cup gs : \A i \in 1..Len(children[x]) :
          children[x][i] \in gs /\ parent[children[x][i]] = x
    /\ \A x \in Nodes \ ({Root} \cup gs) : children[x] = <<>>

\* _bind_model over the depth-first pre-order flattening of the hierarchy
\* (the groups take their position in the flat list as handle)
Reconstructed ==
    LET flat == collapse_group(children, Root)
        n == Len(flat)
        lv == [i \in GroupObjs |-> IF i <= n THEN level[flat[i]] ELSE 0]
    IN  bind_groups(lv, n, 1, <<Root>>, Root, NoChildren, NoParent)

C23_SaveWritesPreorder ==
    [][hist'.op = "save_reload"
       => LET buf == save_bytes(groups, entries, level, id, uuid, group_id, title,
                                username, "test", "None")
              pre == collapse_group(children, Root)
          IN  [i \in 1..Len(buf.grecs) |-> buf.grecs[i].id]
                = [i \in 1..Len(pre) |-> id[pre[i]]]]_vars

\* C24: StructBase.encode writes the fields in ascending type_id order,
\* writes nothing at all (no type_id, no size) for a field whose value is
\* None, and writes the 0xFFFF terminator last with size 0.
C24_EncodeOmitsNone ==
    struct_dmg = "none"
    => LET fs == FieldsOf(struct_buf)
       IN  /\ fs # <<>>
           /\ \A i \in 1..(Len(fs) - 1) : fs[i].typ < fs[i+1].typ
           /\ fs[Len(fs)] = [typ |-> TerminatorType, siz |-> 0]
           /\ \A i \in 1..(Len(fs) - 1) : HasValue(struct_val, fs[i].typ)

\* C25: parsing a record fails with ParseError when the buffer ends inside a
\* field header or payload, when it is empty although a record is expected,
\* when a field has a type_id that is not in the field table, and when the
\* buffer ends without a 0xFFFF terminator.
C25_DamageIsParseError ==
    (struct_dmg \in {"truncated", "empty", "unknown_type"} /\ struct_out.err # "none")
    => struct_out.err = "ParseError"

\* the parent-stack loop of _bind_model run over the loaded flat list
BindLoop == bind_groups(level, Len(groups), 1, <<Root>>, Root, NoChildren, NoParent)

\* C26: for any flat group sequence whose first level is 0 and whose levels
\* are all >= 0, level-consistent or not, the reconstruction loop of
\* _bind_model ends without popping from an empty parent stack, leaves the
\* virtual root at the bottom of the stack, and gives every group exactly one
\* parent: the group is once in that parent's children and in no other list.
C26_BindLoopSafe ==
    (hist.op \in {"load", "save_reload"} /\ ngroupobj > 0)
    => /\ hist.err = "ok"
       /\ BindLoop.err = "ok"
       /\ BindLoop.stack # <<>> /\ BindLoop.stack[1] = Root
       /\ BindLoop.children = children /\ BindLoop.parent = parent
       /\ \A g \in SeqToSet(groups) :
             /\ parent[g] \in {Root} \cup SeqToSet(groups)
             /\ \A x \in Nodes : Count(children[x], g) = (IF x = parent[g] THEN 1 ELSE 0)

\* a sequence that skips a level and then falls back to level 0 was loaded
C26_Witness ==
    /\ hist.op = "load" /\ hist.err = "ok"
    /\ Len(groups) = 3
    /\ level[groups[2]] = 2 /\ level[groups[3]] = 0
    /\ parent[groups[2]] = groups[1] /\ parent[groups[3]] = Root
    /\ BindLoop.stack = <<Root>>

\* following Group.parent from x reaches the virtual root in at most k steps
RECURSIVE ReachesRoot(_, _, _)
ReachesRoot(par, x, k) ==
    IF x = Root THEN TRUE
    ELSE IF k = 0 \/ x = NoneRef THEN FALSE
    ELSE ReachesRoot(par, par[x], k - 1)

\* C27: for any two distinct groups g and p of the database, p a descendant
\* of g included, after move_group(g, p) returns Database.groups holds the
\* same groups as before, each once, every one of them is reachable from the
\* virtual root by following children, and the parent links form no cycle.
C27_MoveGroupKeepsForest ==
    [][\A g \in GroupObjs, p \in GroupObjs, index \in IndexArgs :
         (/\ hist'.op = "move_group" /\ hist'.err = "ok"
          /\ g # p /\ InSeq(g, groups) /\ InSeq(p, groups)
          /\ StepIs(move_group(St, g, p, index)))
         => /\ SeqToSet(groups') = SeqToSet(groups)
            /\ Len(groups') = Len(groups)
            /\ SeqToSet(groups) \subseteq SubtreeOf(children', {Root}, MaxGroups + 1)
            /\ \A x \in SeqToSet(groups) : ReachesRoot(parent', x, MaxGroups)]_vars

\* the step is a save of handle h: the call itself, or the rest of a save
\* whose acquire_lock had found the lock file missing
SaveStepOf(h) ==
    \/ /\ dbs[h].born /\ dbs[h].pc = "idle"
       /\ \E target \in {"None"} \cup Paths, creds \in BOOLEAN :
             Finish(h, "save", locking_save(World(h), target, creds), creds)
    \/ /\ dbs[h].pc = "create" /\ dbs[h].cont = "save"
       /\ Finish(h, "save", save_rest(acquire_create(World(h), h), dbs[h].arg_pw), FALSE)

\* C28: a writable LockingDatabase never writes the database file at its
\* filepath without holding the lock for that path: in every save that
\* writes, _locked is true and the lock file was created by this handle.
C28_SaveOnlyWithLock ==
    [][\A h \in Handles :
         (SaveStepOf(h) /\ lhist'[h].op = "save" /\ lhist'[h].wrote)
         => /\ dbs'[h].locked
            /\ lockfiles'[dbs'[h].filepath] = h]_vars

\* the step is close() or __exit__ (which is release_lock()) of handle h
ReleaseStepOf(h) ==
    /\ dbs[h].born /\ dbs[h].pc = "idle"
    /\ \/ Finish(h, "close", locking_close(World(h)), FALSE)
       \/ Finish(h, "exit", locking_exit(World(h)), FALSE)

\* C29: after release_lock, close or __exit__ returns on a writable
\* LockingDatabase, the handle's _locked flag is false, also when a peer
\* removed or force-acquired the same lock file in between.
C29_ReleaseClearsLocked ==
    [][\A h \in Handles :
         (ReleaseStepOf(h) /\ ~dbs[h].readonly /\ lhist'[h].err = "ok")
         => ~dbs'[h].locked]_vars

\* C30: a database with no group and no entry that was saved with a password
\* loads back with the same password: the load succeeds and gives an empty
\* model (no groups, no entries, a root without children).
C30_EmptyRoundTrip ==
    [][(hist'.op = "save_reload" /\ groups = <<>> /\ entries = <<>>)
          => /\ hist'.err = "ok"
             /\ groups' = <<>> /\ entries' = <<>>
             /\ children'[Root] = <<>>]_vars

====
